---- MODULE Spec2Model ----
(***************************************************************************)
(* Model of two Ansible modules:                                           *)
(*   lib/ansible/modules/cloud/amazon/ec2_asg_scheduled_action.py          *)
(*   lib/ansible/modules/cloud/amazon/iam_user_facts.py                    *)
(*                                                                         *)
(* A Python value that may be None is a set with at most one element:      *)
(* {} is None, {v} is the value v.  A list of at most one scheduled action *)
(* (the "ScheduledUpdateGroupActions" list of one name) is modelled the    *)
(* same way: {} is the empty list, {r} the list [r].                       *)
(***************************************************************************)
EXTENDS Integers, FiniteSets, Sequences, TLC

\* ------------------------------------------------------------------------
\* Bounds of the model
\* ------------------------------------------------------------------------
\* external mutations of the remote store during one invocation
MaxExt == 1
\* invocations in one behaviour
MaxRuns == 2

\* ------------------------------------------------------------------------
\* Input domains
\* ------------------------------------------------------------------------
Groups == {"asg1"}
ActionNames == {"a1", "a2"}
Recurrences == {"r1", "r2"}
Capacities == {0, 1}
Times == {"t1"}
ErrCodes == {"Throttling"}

Opt(S) == {{}} \cup {{v} : v \in S}

\* module.params of ec2_asg_scheduled_action (argument_spec, main): every
\* option but state defaults to None.  A task with state=present supplies
\* the documented required options; a task with state=absent supplies the
\* identity of the action only.
PresentParams ==
  [autoscaling_group_name : Groups,
   scheduled_action_name : ActionNames,
   recurrence : {{r} : r \in Recurrences},
   desired_capacity : {{c} : c \in Capacities},
   min_size : Opt(Capacities),
   max_size : Opt({0}),
   start_time : Opt(Times),
   end_time : Opt(Times),
   state : {"present"}]

AbsentParams ==
  [autoscaling_group_name : Groups,
   scheduled_action_name : ActionNames,
   recurrence : {{}}, desired_capacity : {{}}, min_size : {{}},
   max_size : {{}}, start_time : {{}}, end_time : {{}},
   state : {"absent"}]

ModuleParams == PresentParams \cup AbsentParams

VARIABLES
  remote,     \* the Auto Scaling service: key -> {} or {scheduled action}
  params,     \* module.params of the current invocation
  pc,         \* position of the current invocation
  actions,    \* local `actions` of put_/delete_scheduled_action
  changed,    \* exit_json(changed=...)
  results,    \* exit_json(results=...)
  msg,        \* fail_json(msg=...)
  calls,      \* remote calls issued by the current invocation, in order
  atFetch,    \* history: remote[key] when the first describe was issued
  before,     \* history: remote[key] just before this invocation's upsert
  after,      \* history: remote[key] just after this invocation's upsert
  ext,        \* history: external mutations during this invocation
  runs,       \* history: invocations started so far
  prev,       \* history: how the previous invocation ended
  anomalies,  \* history: kinds of misreported `changed` seen so far
  iam,        \* the IAM service: users, groups
  iamArgs,    \* options the task supplies to iam_user_facts
  iamParams,  \* module.params of iam_user_facts
  iamPc,      \* position of the iam_user_facts invocation
  iam_users,  \* local `iam_users` of list_iam_users
  iamOut,     \* exit_json(iam_users=...)
  iamMsg,     \* fail_json(msg=...)
  iamCalls    \* remote calls issued by the iam_user_facts invocation

asgVars == <<remote, params, pc, actions, changed, results, msg, calls,
             atFetch, before, after, ext, runs, prev, anomalies>>

iamVars == <<iam, iamArgs, iamParams, iamPc, iam_users, iamOut, iamMsg,
             iamCalls>>

vars == <<asgVars, iamVars>>

Keys == Groups \X ActionNames

\* ------------------------------------------------------------------------
\* get_common_params
\* ------------------------------------------------------------------------
get_common_params(p) ==
  [AutoScalingGroupName |-> p.autoscaling_group_name,
   ScheduledActionName |-> p.scheduled_action_name]

KeyOf(cp) == <<cp.AutoScalingGroupName, cp.ScheduledActionName>>

\* ------------------------------------------------------------------------
\* The request built by put_scheduled_update_group_action (lines 159-175).
\* An optional key is in the request iff the parameter is not None.
\* ------------------------------------------------------------------------
IsNotNone(x) == x # {}

\* `if module.params.get('min_size'):` in place of `is not None`
OptionalSize_Truthy(x) == IF x # {} /\ x # {0} THEN x ELSE {}

\* lines 165-169: min_size, max_size
OptionalSize(x) == IF IsNotNone(x) THEN x ELSE {}

\* the two time options never copied into the request
OptionalTime_Dropped(x) == {}

\* lines 171-175: start_time, end_time
OptionalTime(x) == IF IsNotNone(x) THEN x ELSE {}

\* params['DesiredCapacity'] never set
PutRequest_NoDesiredCapacity(p) ==
  [AutoScalingGroupName |-> get_common_params(p).AutoScalingGroupName,
   ScheduledActionName |-> get_common_params(p).ScheduledActionName,
   Recurrence |-> p.recurrence,
   DesiredCapacity |-> {},
   MinSize |-> OptionalSize(p.min_size),
   MaxSize |-> OptionalSize(p.max_size),
   StartTime |-> OptionalTime(p.start_time),
   EndTime |-> OptionalTime(p.end_time)]

PutRequest(p) ==
  [AutoScalingGroupName |-> get_common_params(p).AutoScalingGroupName,
   ScheduledActionName |-> get_common_params(p).ScheduledActionName,
   Recurrence |-> p.recurrence,
   DesiredCapacity |-> p.desired_capacity,
   MinSize |-> OptionalSize(p.min_size),
   MaxSize |-> OptionalSize(p.max_size),
   StartTime |-> OptionalTime(p.start_time),
   EndTime |-> OptionalTime(p.end_time)]

\* ------------------------------------------------------------------------
\* The remote resource API (spec section 6): describe / upsert / delete.
\* The upsert keeps the fields of an existing action that the request does
\* not name.
\* ------------------------------------------------------------------------
KeepOr(old, new, f) == IF new[f] # {} THEN new[f]
                       ELSE IF old = {} THEN {}
                       ELSE (CHOOSE o \in old : TRUE)[f]

Upsert(old, req) ==
  [AutoScalingGroupName |-> req.AutoScalingGroupName,
   ScheduledActionName |-> req.ScheduledActionName,
   Recurrence |-> req.Recurrence,
   DesiredCapacity |-> req.DesiredCapacity,
   MinSize |-> KeepOr(old, req, "MinSize"),
   MaxSize |-> KeepOr(old, req, "MaxSize"),
   StartTime |-> KeepOr(old, req, "StartTime"),
   EndTime |-> KeepOr(old, req, "EndTime")]

Call(op, key, req, ok) == [op |-> op, key |-> key, req |-> req, ok |-> ok]

None == [tag |-> "None", val |-> {}]
Unbound == [tag |-> "unbound", val |-> {}]
List(s) == [tag |-> "list", val |-> s]

Running == pc \in {"put_describe", "put_call", "put_redescribe",
                   "del_describe", "del_call"}

\* ------------------------------------------------------------------------
\* Initial state: nothing invoked yet; the service holds what other actors
\* have put there
\* ------------------------------------------------------------------------
NoParams ==
  [autoscaling_group_name |-> "asg1", scheduled_action_name |-> "a1",
   recurrence |-> {}, desired_capacity |-> {}, min_size |-> {},
   max_size |-> {}, start_time |-> {}, end_time |-> {}, state |-> "present"]

InitialActions(key) ==
  {[AutoScalingGroupName |-> key[1], ScheduledActionName |-> key[2],
    Recurrence |-> {"r1"}, DesiredCapacity |-> {0},
    MinSize |-> {}, MaxSize |-> {}, StartTime |-> {}, EndTime |-> {}],
   [AutoScalingGroupName |-> key[1], ScheduledActionName |-> key[2],
    Recurrence |-> {"r2"}, DesiredCapacity |-> {0},
    MinSize |-> {1}, MaxSize |-> {}, StartTime |-> {}, EndTime |-> {}],
   [AutoScalingGroupName |-> key[1], ScheduledActionName |-> key[2],
    Recurrence |-> {"r1"}, DesiredCapacity |-> {1},
    MinSize |-> {1}, MaxSize |-> {0}, StartTime |-> {"t1"}, EndTime |-> {"t1"}]}

InitialStores ==
  {s \in [Keys -> {{}} \cup {{a} : a \in UNION {InitialActions(k) : k \in Keys}}] :
     /\ \A k \in Keys : \A a \in s[k] : KeyOf(a) = k
     /\ s[<<"asg1", "a2">>] = {}}

NoPrev == [exited |-> FALSE, changed |-> FALSE, quiet |-> FALSE]

AsgInit ==
  /\ remote \in InitialStores
  /\ params = NoParams
  /\ pc = "idle"
  /\ actions = Unbound
  /\ changed = FALSE
  /\ results = {}
  /\ msg = {}
  /\ calls = <<>>
  /\ atFetch = {}
  /\ before = {}
  /\ after = {}
  /\ ext = 0
  /\ runs = 0
  /\ prev = NoPrev
  /\ anomalies = {}

ResetLocals ==
  /\ actions' = Unbound
  /\ changed' = FALSE
  /\ results' = {}
  /\ msg' = {}
  /\ calls' = <<>>
  /\ atFetch' = {}
  /\ before' = {}
  /\ after' = {}
  /\ ext' = 0

\* main, lines 197-227: an invocation with the task's parameters.  A
\* behaviour runs one task, again after each run that ended in exit_json; a
\* task that fails ends the play.
main(p) ==
  /\ \/ pc = "idle"
     \/ pc = "exit" /\ p = params
  /\ runs < MaxRuns
  /\ params' = p
  /\ pc' = IF p.state = "present" THEN "put_describe" ELSE "del_describe"
  /\ runs' = runs + 1
  /\ prev' = [exited |-> pc = "exit", changed |-> changed, quiet |-> ext = 0]
  /\ ResetLocals
  /\ UNCHANGED <<remote, anomalies>>
  /\ UNCHANGED iamVars

\* describe_scheduled_actions, lines 146-148: the request
DescribeRequest(p) ==
  [AutoScalingGroupName |-> get_common_params(p).AutoScalingGroupName,
   ScheduledActionNames |-> {get_common_params(p).ScheduledActionName}]

DescribeKey(req) ==
  <<req.AutoScalingGroupName, CHOOSE n \in req.ScheduledActionNames : TRUE>>

\* describe_scheduled_actions, lines 145-154: a ClientError is passed over
\* and the empty dict is returned, whose "ScheduledUpdateGroupActions" is
\* None
describe_scheduled_actions(ok) ==
  IF ok THEN List(remote[DescribeKey(DescribeRequest(params))]) ELSE None

DescribeCall(ok) ==
  Call("describe", DescribeKey(DescribeRequest(params)), {}, ok)

\* the re-fetch and the comparison skipped
PutFoundNone_Always(a) == TRUE

\* line 185: len(actions) == 0
PutFoundNone(a) == Cardinality(a.val) = 0

\* `actions != updated`: a list against a dict
RecordsDiffer_ListVsDict(a, updated) == TRUE

\* `actions[0] != actions[0]`
RecordsDiffer_Self(a, updated) == a # a

\* line 191: actions[0] != updated
RecordsDiffer(a, updated) == a # updated

\* the delete issued whatever the describe found
DelFoundNone_Never(a) == FALSE

\* line 130: len(actions) == 0
DelFoundNone(a) == Cardinality(a.val) = 0

\* put_scheduled_update_group_action, lines 177-178
PutDescribe(ok) ==
  /\ pc = "put_describe"
  /\ actions' = describe_scheduled_actions(ok)
  /\ calls' = Append(calls, DescribeCall(ok))
  /\ atFetch' = remote[KeyOf(get_common_params(params))]
  /\ pc' = "put_call"
  /\ UNCHANGED <<remote, params, changed, results, msg, before, after, ext,
                 runs, prev, anomalies>>
  /\ UNCHANGED iamVars

\* put_scheduled_update_group_action, lines 180-186 and 194; main line 224.
\* len(None) raises TypeError.
PutCall(ok, code) ==
  /\ pc = "put_call"
  /\ LET req == PutRequest(params)
         key == KeyOf(req)
         new == Upsert(remote[key], req)
     IN /\ calls' = Append(calls, Call("put", key, {req}, ok))
        /\ IF ~ok
           THEN /\ msg' = {[code |-> code, op |-> "put"]}
                /\ pc' = "failed"
                /\ UNCHANGED <<remote, changed, results, before, after>>
           ELSE /\ remote' = [remote EXCEPT ![key] = {new}]
                /\ before' = remote[key]
                /\ after' = {new}
                /\ msg' = {}
                /\ IF actions.tag # "list"
                   THEN /\ pc' = "crashed"
                        /\ UNCHANGED <<changed, results>>
                   ELSE IF PutFoundNone(actions)
                   THEN /\ changed' = TRUE
                        /\ results' = {new}
                        /\ pc' = "exit"
                   ELSE /\ pc' = "put_redescribe"
                        /\ results' = {new}
                        /\ UNCHANGED changed
  /\ UNCHANGED <<params, actions, atFetch, ext, runs, prev, anomalies>>
  /\ UNCHANGED iamVars

\* what `changed` would say if it told whether this invocation's upsert
\* altered the action
Altered == before # after

\* put_scheduled_update_group_action, lines 188-194; main line 224.
\* None[0] raises TypeError, [][0] raises IndexError.
PutRedescribe(ok) ==
  /\ pc = "put_redescribe"
  /\ LET existing == describe_scheduled_actions(ok)
     IN /\ calls' = Append(calls, DescribeCall(ok))
        /\ IF existing.tag # "list" \/ existing.val = {}
           THEN /\ pc' = "crashed"
                /\ UNCHANGED <<changed, anomalies>>
           ELSE /\ changed' = RecordsDiffer(actions.val, existing.val)
                /\ pc' = "exit"
                /\ anomalies' = anomalies \cup
                     {k \in {"false_changed", "masked"} :
                        \/ k = "false_changed" /\ changed' /\ ~Altered
                        \/ k = "masked" /\ ~changed' /\ Altered}
  /\ UNCHANGED <<remote, params, actions, results, msg, atFetch, before,
                 after, ext, runs, prev>>
  /\ UNCHANGED iamVars

\* delete_scheduled_action, lines 122-131; main line 227.  With the empty
\* dict, line 126 reads the unbound local `actions`: UnboundLocalError.
DelDescribe(ok) ==
  /\ pc = "del_describe"
  /\ LET existing == describe_scheduled_actions(ok)
     IN /\ calls' = Append(calls, DescribeCall(ok))
        /\ atFetch' = remote[KeyOf(get_common_params(params))]
        /\ IF existing.tag # "list"
           THEN /\ pc' = "crashed"
                /\ UNCHANGED actions
           ELSE /\ actions' = existing
                /\ pc' = IF DelFoundNone(existing) THEN "exit" ELSE "del_call"
  /\ UNCHANGED <<remote, params, changed, results, msg, before, after, ext,
                 runs, prev, anomalies>>
  /\ UNCHANGED iamVars

\* delete_scheduled_action, lines 133-142; main line 227.  The service
\* refuses to delete an action that does not exist.
DelCall(ok, code) ==
  /\ pc = "del_call"
  /\ LET key == KeyOf(get_common_params(params))
         done == ok /\ remote[key] # {}
     IN /\ calls' = Append(calls, Call("delete", key, {}, done))
        /\ IF done
           THEN /\ remote' = [remote EXCEPT ![key] = {}]
                /\ changed' = TRUE
                /\ results' = {}
                /\ pc' = "exit"
                /\ UNCHANGED msg
           ELSE /\ msg' = {[code |-> code, op |-> "delete"]}
                /\ pc' = "failed"
                /\ UNCHANGED <<remote, changed, results>>
  /\ UNCHANGED <<params, actions, atFetch, before, after, ext, runs, prev,
                 anomalies>>
  /\ UNCHANGED iamVars

\* another actor of the service, at work on the action "a1"
ExtKeys == {<<"asg1", "a1">>}

ExtRequests ==
  [AutoScalingGroupName : {"asg1"}, ScheduledActionName : {"a1"},
   Recurrence : {{"r1"}}, DesiredCapacity : {{0}},
   MinSize : {{}}, MaxSize : {{}}, StartTime : {{}}, EndTime : {{}}]

ExternalPut(req) ==
  /\ Running
  /\ ext < MaxExt
  /\ remote' = [remote EXCEPT ![KeyOf(req)] = {Upsert(remote[KeyOf(req)], req)}]
  /\ ext' = ext + 1
  /\ UNCHANGED <<params, pc, actions, changed, results, msg, calls, atFetch,
                 before, after, runs, prev, anomalies>>
  /\ UNCHANGED iamVars

ExternalDelete(key) ==
  /\ Running
  /\ ext < MaxExt
  /\ remote[key] # {}
  /\ remote' = [remote EXCEPT ![key] = {}]
  /\ ext' = ext + 1
  /\ UNCHANGED <<params, pc, actions, changed, results, msg, calls, atFetch,
                 before, after, runs, prev, anomalies>>
  /\ UNCHANGED iamVars

Next ==
  \/ \E p \in ModuleParams : main(p)
  \/ \E ok \in BOOLEAN : PutDescribe(ok)
  \/ \E ok \in BOOLEAN, c \in ErrCodes : PutCall(ok, c)
  \/ \E ok \in BOOLEAN : PutRedescribe(ok)
  \/ \E ok \in BOOLEAN : DelDescribe(ok)
  \/ \E ok \in BOOLEAN, c \in ErrCodes : DelCall(ok, c)
  \/ \E req \in ExtRequests : ExternalPut(req)
  \/ \E key \in ExtKeys : ExternalDelete(key)

\* ------------------------------------------------------------------------
\* iam_user_facts
\* ------------------------------------------------------------------------
\* line 122: params = dict(MaxItems=1000)
MaxItems == 1000

UserNames == {"test", "bob"}
GroupNames == {"dev"}

\* strings as sequences of characters
EmptyStr == <<>>
RootPath == <<"/">>
DevPath == <<"/", "d", "/">>

StartsWith(s, prefix) ==
  /\ Len(prefix) <= Len(s)
  /\ SubSeq(s, 1, Len(prefix)) = prefix

\* Python truth value of an optional string
Truthy(x) == x # {} /\ \A v \in x : Len(v) > 0

IamUser == [UserName : UserNames, Path : {RootPath, DevPath}]

\* The account: named users, the members of group "dev" when the group
\* exists, and `crowd` further users under "/" whose names no task asks for.
IamStores ==
  {s \in [users : SUBSET IamUser, dev : Opt(SUBSET UserNames),
          crowd : {0, MaxItems}] :
     /\ \A u, v \in s.users : u.UserName = v.UserName => u = v
     /\ \A m \in s.dev : m \subseteq {u.UserName : u \in s.users}}

\* options a task can supply (main, lines 157-163)
IamArgs ==
  [name : Opt(UserNames), group : Opt(GroupNames),
   path : Opt({EmptyStr, RootPath, DevPath})]

NoIamArgs == [name |-> {}, group |-> {}, path |-> {}]
NoUsers == [named |-> {}, others |-> 0]

IamIdle ==
  /\ iamArgs = NoIamArgs
  /\ iamParams = NoIamArgs
  /\ iamPc = "idle"
  /\ iam_users = NoUsers
  /\ iamOut = NoUsers
  /\ iamMsg = ""
  /\ iamCalls = <<>>

IamInit ==
  /\ iam \in IamStores
  /\ IamIdle

\* mutually_exclusive left out of the AnsibleModule call
mutually_exclusive_none == {}

\* main, lines 167-169
mutually_exclusive == {{"group", "path"}}

\* main, line 161: path=dict(default='/')
ArgumentDefaults(args) ==
  [args EXCEPT !.path = IF @ = {} THEN {RootPath} ELSE @]

\* AnsibleModule: options of one exclusive set supplied together
MutuallyExclusiveViolated(checks, args) ==
  \E check \in checks : Cardinality({o \in check : args[o] # {}}) > 1

\* main, lines 155-180: the options are validated as supplied, then the
\* defaults are filled in, then list_iam_users is called
iam_main(args) ==
  /\ iamPc \in {"idle", "exit", "failed"}
  /\ iamArgs' = args
  /\ iam_users' = NoUsers
  /\ iamOut' = NoUsers
  /\ iamCalls' = <<>>
  /\ IF MutuallyExclusiveViolated(mutually_exclusive, args)
     THEN /\ iamPc' = "failed"
          /\ iamMsg' = "parameters are mutually exclusive"
          /\ iamParams' = args
     ELSE /\ iamPc' = "get_user"
          /\ iamMsg' = ""
          /\ iamParams' = ArgumentDefaults(args)
  /\ UNCHANGED iam
  /\ UNCHANGED asgVars

\* the IAM API
GetUser(store, name) == {u \in store.users : u.UserName = name}

GetGroup(store) == {u \in store.users : \E m \in store.dev : u.UserName \in m}

\* list_users answers with one page of at most MaxItems users
ListUsersPages(store, prefix) ==
  LET matches == {u \in store.users : StartsWith(u.Path, prefix)}
      crowd == IF StartsWith(RootPath, prefix) THEN store.crowd ELSE 0
      total == Cardinality(matches) + crowd
      size == IF total > MaxItems THEN MaxItems ELSE total
  IN {[named |-> P, others |-> size - Cardinality(P)] :
        P \in {Q \in SUBSET matches :
                 /\ size - Cardinality(Q) >= 0
                 /\ size - Cardinality(Q) <= crowd}}

\* lines 140 and 150: [user for user in iam_users if user['UserName'] == name]
FilterByName(users, name) ==
  [named |-> {u \in users.named : {u.UserName} = name}, others |-> 0]

\* camel_dict_to_snake_dict
camel_dict_to_snake_dict(u) == [user_name |-> u.UserName, path |-> u.Path]

\* list_iam_users, lines 125-130
iam_get_user(ok) ==
  /\ iamPc = "get_user"
  /\ IF Truthy(iamParams.name) /\ ~Truthy(iamParams.path)
     THEN LET found == UNION {GetUser(iam, n) : n \in iamParams.name}
          IN /\ iamCalls' = Append(iamCalls, "get_user")
             /\ IF ok /\ found # {}
                THEN /\ iam_users' = [iam_users EXCEPT !.named = @ \cup found]
                     /\ iamPc' = "get_group"
                     /\ UNCHANGED iamMsg
                ELSE /\ iamMsg' = "get_user failed"
                     /\ iamPc' = "failed"
                     /\ UNCHANGED iam_users
     ELSE /\ iamPc' = "get_group"
          /\ UNCHANGED <<iam_users, iamCalls, iamMsg>>
  /\ UNCHANGED <<iam, iamArgs, iamParams, iamOut>>
  /\ UNCHANGED asgVars

\* list_iam_users, lines 132-140
iam_get_group(ok) ==
  /\ iamPc = "get_group"
  /\ IF Truthy(iamParams.group)
     THEN /\ iamCalls' = Append(iamCalls, "get_group")
          /\ IF ok /\ iam.dev # {}
             THEN /\ iam_users' =
                       IF Truthy(iamParams.name)
                       THEN FilterByName([named |-> GetGroup(iam), others |-> 0],
                                         iamParams.name)
                       ELSE [named |-> GetGroup(iam), others |-> 0]
                  /\ iamPc' = "list_users"
                  /\ UNCHANGED iamMsg
             ELSE /\ iamMsg' = "Failed while listing IAM groups"
                  /\ iamPc' = "failed"
                  /\ UNCHANGED iam_users
     ELSE /\ iamPc' = "list_users"
          /\ UNCHANGED <<iam_users, iamCalls, iamMsg>>
  /\ UNCHANGED <<iam, iamArgs, iamParams, iamOut>>
  /\ UNCHANGED asgVars

Exit(users) ==
  [named |-> {camel_dict_to_snake_dict(u) : u \in users.named},
   others |-> users.others]

\* list_iam_users, lines 142-152
iam_list_users(ok) ==
  /\ iamPc = "list_users"
  /\ IF Truthy(iamParams.path) /\ ~Truthy(iamParams.group)
     THEN /\ iamCalls' = Append(iamCalls, "list_users")
          /\ IF ok
             THEN \E prefix \in iamParams.path :
                  \E page \in ListUsersPages(iam, prefix) :
                    /\ iam_users' = IF Truthy(iamParams.name)
                                    THEN FilterByName(page, iamParams.name)
                                    ELSE page
                    /\ iamOut' = Exit(iam_users')
                    /\ iamPc' = "exit"
                    /\ UNCHANGED iamMsg
             ELSE /\ iamMsg' = "Failed while listing IAM users"
                  /\ iamPc' = "failed"
                  /\ UNCHANGED <<iam_users, iamOut>>
     ELSE /\ iamOut' = Exit(iam_users)
          /\ iamPc' = "exit"
          /\ UNCHANGED <<iam_users, iamCalls, iamMsg>>
  /\ UNCHANGED <<iam, iamArgs, iamParams>>
  /\ UNCHANGED asgVars

IamNext ==
  \/ \E args \in IamArgs : iam_main(args)
  \/ \E ok \in BOOLEAN : iam_get_user(ok)
  \/ \E ok \in BOOLEAN : iam_get_group(ok)
  \/ \E ok \in BOOLEAN : iam_list_users(ok)

\* ------------------------------------------------------------------------
\* Specifications
\* ------------------------------------------------------------------------
NoIam == [users |-> {}, dev |-> {}, crowd |-> 0]

Init == AsgInit /\ iam = NoIam /\ IamIdle

Spec == Init /\ [][Next]_vars

IamSpecInit == IamInit /\ AsgInit /\ remote = [k \in Keys |-> {}]

IamSpec == IamSpecInit /\ [][IamNext]_vars

\* ------------------------------------------------------------------------
\* Properties
\* ------------------------------------------------------------------------
TypeOK == pc \in {"idle", "put_describe", "put_call", "put_redescribe",
                  "del_describe", "del_call", "exit", "failed", "crashed"}

Present == params.state = "present"
Absent == params.state = "absent"
Key == <<params.autoscaling_group_name, params.scheduled_action_name>>
Finished == pc \in {"exit", "failed", "crashed"}

\* the action carries the identity and every field the task supplies
Carries(a, p) ==
  /\ a.AutoScalingGroupName = p.autoscaling_group_name
  /\ a.ScheduledActionName = p.scheduled_action_name
  /\ a.Recurrence = p.recurrence
  /\ a.DesiredCapacity = p.desired_capacity
  /\ p.min_size # {} => a.MinSize = p.min_size
  /\ p.max_size # {} => a.MaxSize = p.max_size
  /\ p.start_time # {} => a.StartTime = p.start_time
  /\ p.end_time # {} => a.EndTime = p.end_time

\* the action is the task's parameters, field for field
SameAs(a, p) ==
  /\ a.AutoScalingGroupName = p.autoscaling_group_name
  /\ a.ScheduledActionName = p.scheduled_action_name
  /\ a.Recurrence = p.recurrence
  /\ a.DesiredCapacity = p.desired_capacity
  /\ a.MinSize = p.min_size
  /\ a.MaxSize = p.max_size
  /\ a.StartTime = p.start_time
  /\ a.EndTime = p.end_time

\* the action differs from the task's parameters in a field the task supplies
DiffersInSupplied(a, p) ==
  \/ a.Recurrence # p.recurrence
  \/ a.DesiredCapacity # p.desired_capacity
  \/ p.min_size # {} /\ a.MinSize # p.min_size
  \/ p.max_size # {} /\ a.MaxSize # p.max_size
  \/ p.start_time # {} /\ a.StartTime # p.start_time
  \/ p.end_time # {} /\ a.EndTime # p.end_time

Ops == [i \in DOMAIN calls |-> calls[i].op]
Mutations == {i \in DOMAIN calls : calls[i].op \in {"put", "delete"}}

\* C1: when the first fetch of a state=present invocation finds no action
\* under the task's identity key, the invocation reports changed=true and
\* returns one resource that carries the key and every field the task
\* supplies; with no external mutation it is the task's parameters field
\* for field.
C1_CreateReportsChanged ==
  (pc = "exit" /\ Present /\ atFetch = {}) =>
     /\ changed
     /\ Cardinality(results) = 1
     /\ \A r \in results : Carries(r, params) /\ (ext = 0 => SameAs(r, params))

C1_Witness ==
  /\ pc = "exit" /\ Present /\ atFetch = {} /\ changed
  /\ params.min_size = {0} /\ params.start_time = {}
  /\ \E r \in results : r.MinSize = {0} /\ r.Recurrence = {"r2"}

\* C2 as stated: when an action exists under the key and differs from the
\* task's parameters in at least one field (a field the task leaves out
\* counted), a state=present invocation without external mutation reports
\* changed=true and leaves the remote action carrying every supplied field.
C2_Original ==
  (pc = "exit" /\ Present /\ ext = 0 /\ atFetch # {}
      /\ \E a \in atFetch : ~SameAs(a, params)) =>
     /\ changed
     /\ remote[Key] # {}
     /\ \A a \in remote[Key] : Carries(a, params)

\* C2 amended: when an action exists under the key and differs from the
\* task's parameters in at least one field the task supplies, a
\* state=present invocation without external mutation reports changed=true
\* and leaves the remote action carrying every supplied field.
C2_UpdateReportsChanged ==
  (pc = "exit" /\ Present /\ ext = 0 /\ atFetch # {}
      /\ \E a \in atFetch : DiffersInSupplied(a, params)) =>
     /\ changed
     /\ remote[Key] # {}
     /\ \A a \in remote[Key] : Carries(a, params)

C2_Witness ==
  /\ pc = "exit" /\ Present /\ ext = 0 /\ changed
  /\ \E a \in atFetch : a.StartTime = {} /\ a.MinSize = {1}
  /\ params.start_time = {"t1"} /\ params.min_size = {0}
  /\ \E a \in remote[Key] : a.StartTime = {"t1"} /\ a.MinSize = {0}

\* C3: when the action under the key already is what the upsert of the
\* task's parameters produces, a state=present invocation without external
\* mutation reports changed=false; so does an invocation that directly
\* follows a successful undisturbed invocation of the same task.
C3_SecondRunUnchanged ==
  /\ (pc = "exit" /\ Present /\ ext = 0
        /\ atFetch = {Upsert(atFetch, PutRequest(params))}) => ~changed
  /\ (pc = "exit" /\ Present /\ ext = 0 /\ prev.exited /\ prev.quiet)
        => ~changed

C3_Witness ==
  /\ pc = "exit" /\ Present /\ ext = 0
  /\ prev.exited /\ prev.quiet /\ prev.changed
  /\ ~changed
  /\ Len(calls) = 3

\* C4: a state=absent invocation that finds the action and is not disturbed
\* reports changed=true after exactly one delete for the task's key, which
\* removes the action; the invocation directly after it issues no mutation
\* and reports changed=false.
C4_AbsentTwice ==
  /\ (pc = "exit" /\ Absent /\ ext = 0 /\ atFetch # {}) =>
        /\ changed
        /\ Cardinality(Mutations) = 1
        /\ \A i \in Mutations : calls[i] = Call("delete", Key, {}, TRUE)
        /\ remote[Key] = {}
  /\ (Finished /\ Absent /\ ext = 0
        /\ prev.exited /\ prev.changed /\ prev.quiet) =>
        /\ Mutations = {}
        /\ pc # "failed"
        /\ pc = "exit" => ~changed

C4_Witness ==
  /\ pc = "exit" /\ Absent /\ ext = 0
  /\ prev.exited /\ prev.changed /\ prev.quiet
  /\ ~changed
  /\ Ops = <<"describe">>

\* C5 as stated: a remote call that fails is the last call of the
\* invocation, and the invocation ends in fail_json with the remote message.
C5_FailureIsFatal ==
  \A i \in DOMAIN calls :
     ~calls[i].ok => /\ i = Len(calls)
                     /\ pc = "failed"
                     /\ msg # {}

\* C6: a task that supplies both group and path is rejected with the
\* validation error, and no call to get_user, get_group or list_users is
\* made.
C6_ExclusiveRejected ==
  (iamPc # "idle" /\ iamArgs.group # {} /\ iamArgs.path # {}) =>
     /\ iamPc = "failed"
     /\ iamMsg = "parameters are mutually exclusive"
     /\ iamCalls = <<>>

C6_Witness ==
  /\ iamPc = "failed"
  /\ iamArgs.group # {} /\ iamArgs.path # {} /\ iamArgs.name # {}
  /\ iamCalls = <<>>

\* C7 as stated: a task that supplies only a name gets exactly the user of
\* that name when it exists and the empty list otherwise, and fails only
\* when the remote call fails.
C7_NameOnly ==
  (iamArgs.name # {} /\ iamArgs.group = {} /\ iamArgs.path = {}) =>
     /\ iamPc = "exit" =>
          iamOut = Exit([named |-> {u \in iam.users : {u.UserName} = iamArgs.name},
                         others |-> 0])
     /\ iamPc = "failed" => iamMsg = "Failed while listing IAM users"

\* C8: the put request names an optional field exactly when the task
\* supplies it, with the supplied value (0 included); a field the task
\* leaves out has, after the invocation's upsert of an existing action, the
\* value it had before.
C8_OptionalFields ==
  /\ \A i \in DOMAIN calls : \A r \in calls[i].req :
        /\ r.MinSize = params.min_size
        /\ r.MaxSize = params.max_size
        /\ r.StartTime = params.start_time
        /\ r.EndTime = params.end_time
  /\ \A b \in before : \A a \in after :
        /\ params.min_size = {} => a.MinSize = b.MinSize
        /\ params.max_size = {} => a.MaxSize = b.MaxSize
        /\ params.start_time = {} => a.StartTime = b.StartTime
        /\ params.end_time = {} => a.EndTime = b.EndTime

C8_Witness ==
  /\ pc = "exit" /\ Present
  /\ params.min_size = {0} /\ params.max_size = {}
  /\ \E b \in before : b.MinSize = {1} /\ b.MaxSize = {0}
  /\ \E a \in after : a.MinSize = {0} /\ a.MaxSize = {0}

\* C9: a state=present invocation reports a `changed` that differs from
\* whether its own upsert altered the action only when another actor
\* mutated the service during the invocation; with such an actor both
\* misreports happen (the witness).
C9_MisreportNeedsExternal ==
  (pc = "exit" /\ Present /\ changed # Altered) => ext > 0

C9_Witness == anomalies = {"false_changed", "masked"}

\* C10 as stated: every state=present invocation that exits has issued
\* describe, put, describe, in this order, each for the task's key.
C10_Original ==
  (pc = "exit" /\ Present) =>
     /\ Ops = <<"describe", "put", "describe">>
     /\ \A i \in DOMAIN calls : calls[i].key = Key

\* C10 amended: a state=present invocation issues its calls for the task's
\* key, a describe first and one put second; when the describe found an
\* action it exits after a third call, a describe, and `changed` is not set
\* before that call; when the describe found none it exits after the put
\* with changed=true and no second describe.
C10_CallOrder ==
  /\ (Present /\ pc # "idle") =>
        /\ \A i \in DOMAIN calls :
              /\ calls[i].key = Key
              /\ calls[i].op = IF i = 2 THEN "put" ELSE "describe"
        /\ Len(calls) <= 3
  /\ (Present /\ pc = "exit" /\ atFetch # {}) => Len(calls) = 3
  /\ (Present /\ pc = "exit" /\ atFetch = {}) => Len(calls) = 2 /\ changed
  /\ (Present /\ pc = "put_redescribe") => ~changed /\ Len(calls) = 2

C10_Witness ==
  /\ pc = "exit" /\ Present /\ atFetch # {}
  /\ Ops = <<"describe", "put", "describe">>
  /\ changed
====
